---- MODULE Spec2Model ----
(***************************************************************************)
(* Model of the ebook generation backend (src/app.py): the request handler *)
(* generate_ebook and its helpers _response_text,                          *)
(* _extract_text_from_uploads, _connect_mysql, _ensure_table_exists and    *)
(* _store_record_in_mysql.                                                 *)
(*                                                                         *)
(* Python strings are modelled as sequences of one-character strings, so   *)
(* that str.strip, str.lower, str.endswith, str.join and bytes.decode are  *)
(* computed rather than assumed.  Python values whose type the code tests  *)
(* (None, str, other) are tagged records.                                  *)
(***************************************************************************)
EXTENDS Integers, Sequences, FiniteSets, TLC

\* ------------------------------------------------------------------ bounds
\* Longest sequence of uploaded files in one request.
MaxUploads == 2
\* Most candidates in one generative response.
MaxCandidates == 2

\* ------------------------------------------------------- Python values
None == [tag |-> "none"]
NonStr == [tag |-> "other"]
Str(s) == [tag |-> "str", val |-> s]
List(items) == [tag |-> "list", items |-> items]
IsStr(v) == v.tag = "str"

\* Sequences over S of length at most n.
SeqUpTo(S, n) == UNION {[1..k -> S] : k \in 0..n}

\* ------------------------------------------------------------ str methods
\* Characters str.strip() removes when called without arguments.
Whitespace == {" ", "\n", "\t"}

RECURSIVE LStrip(_, _)
LStrip(s, chars) ==
    IF s # <<>> /\ Head(s) \in chars THEN LStrip(Tail(s), chars) ELSE s

RECURSIVE RStrip(_, _)
RStrip(s, chars) ==
    IF s # <<>> /\ s[Len(s)] \in chars
    THEN RStrip(SubSeq(s, 1, Len(s) - 1), chars)
    ELSE s

\* str.strip(chars)
StripChars(s, chars) == RStrip(LStrip(s, chars), chars)

\* str.strip()
Strip(s) == StripChars(s, Whitespace)

\* str.lower() on the characters file names are built from.
LowerChar(c) ==
    CASE c = "P" -> "p"
      [] c = "D" -> "d"
      [] c = "F" -> "f"
      [] c = "T" -> "t"
      [] c = "X" -> "x"
      [] OTHER -> c

Lower(s) == [i \in 1..Len(s) |-> LowerChar(s[i])]

\* str.endswith(suffix)
EndsWith(s, suffix) ==
    /\ Len(s) >= Len(suffix)
    /\ SubSeq(s, Len(s) - Len(suffix) + 1, Len(s)) = suffix

\* sep.join(strs)
RECURSIVE Join(_, _)
Join(strs, sep) ==
    IF strs = <<>> THEN <<>>
    ELSE IF Len(strs) = 1 THEN strs[1]
    ELSE strs[1] \o sep \o Join(Tail(strs), sep)

\* "".join(strs)
RECURSIVE Concat(_)
Concat(strs) == IF strs = <<>> THEN <<>> ELSE Head(strs) \o Concat(Tail(strs))

\* A byte that is not valid UTF-8.
BadByte == "xFF"

\* bytes.decode("utf-8", errors="ignore"): undecodable bytes are dropped.
Decode(bytes) == SelectSeq(bytes, LAMBDA b : b # BadByte)

\* --------------------------------------------------------- _response_text
\* The str texts of a candidate's parts, in part order; nothing for a
\* candidate without content or without parts.
CandidateTexts(candidate) ==
    IF candidate.content.tag = "none" THEN <<>>
    ELSE IF candidate.content.parts.tag = "none" THEN <<>>
    ELSE IF candidate.content.parts.items = <<>> THEN <<>>
    ELSE LET parts == candidate.content.parts.items
             strs == SelectSeq(parts, LAMBDA p : IsStr(p.text))
         IN [i \in 1..Len(strs) |-> strs[i].text.val]

\* Mutant of Collected: only the first candidate is read.
CollectedFirstOnly(candidates) ==
    IF candidates = <<>> THEN <<>> ELSE CandidateTexts(Head(candidates))

RECURSIVE Collected(_)
Collected(candidates) ==
    IF candidates = <<>> THEN <<>>
    ELSE CandidateTexts(Head(candidates)) \o Collected(Tail(candidates))

\* _response_text(response)
ResponseText(response) ==
    IF IsStr(response.text) /\ Strip(response.text.val) # <<>>
    THEN response.text.val
    ELSE IF response.candidates.tag = "none" THEN <<>>
    ELSE IF response.candidates.items = <<>> THEN <<>>
    ELSE Concat(Collected(response.candidates.items))

\* ---------------------------------------------- generative responses
\* Values the text attribute of a response takes.
ResponseTextValues ==
    { None, NonStr, Str(<<" ">>), Str(<<" ", "#", "a", "\n">>),
      Str(<<"a", "\n", "#", "b">>) }

Part(t) == [text |-> t]

\* The parts attribute of a content: absent, empty, or a list of parts whose
\* text is a str or something else.
PartLists ==
    { None, List(<< Part(Str(<<" ">>)) >>), List(<< Part(NonStr), Part(Str(<<"a">>)) >>) }

Contents == { None } \cup { [tag |-> "obj", parts |-> ps] : ps \in PartLists }

Candidates == { [content |-> c] : c \in Contents }

CandidateLists ==
    { None } \cup { List(cs) : cs \in SeqUpTo(Candidates, MaxCandidates) }

Responses == [text : ResponseTextValues, candidates : CandidateLists]

\* ------------------------------------------- _extract_text_from_uploads
\* An uploaded file: its name, its raw bytes, and the pages PdfReader finds
\* in those bytes (None when the bytes are not a readable PDF, so that
\* PdfReader raises).
TxtFile ==
    [filename |-> Str(<<"r", ".", "t", "x", "t">>),
     bytes |-> <<"R", BadByte>>, pages |-> None]
PdfFile ==
    [filename |-> Str(<<"b", ".", "P", "D", "F">>),
     bytes |-> <<"%">>, pages |-> List(<< <<"P">>, <<>> >>)]
CorruptPdf ==
    [filename |-> Str(<<"c", ".", "p", "d", "f">>),
     bytes |-> <<"R">>, pages |-> None]
OtherFile ==
    [filename |-> Str(<<"d", ".", "d", "o", "c">>),
     bytes |-> <<"R">>, pages |-> None]

Uploads == { TxtFile, PdfFile, CorruptPdf, OtherFile }

\* Mutant of FileName: the name is compared as it was given.
FileNameAsGiven(storage) ==
    IF IsStr(storage.filename) THEN storage.filename.val ELSE <<>>

\* (storage.filename or "").lower()
FileName(storage) ==
    IF IsStr(storage.filename) THEN Lower(storage.filename.val) ELSE <<>>

PdfSuffix == <<".", "p", "d", "f">>
TxtSuffix == <<".", "t", "x", "t">>

\* PdfReader(pdf_bytes) raises on bytes that are no PDF; nothing catches it.
FileRaises(storage) ==
    EndsWith(FileName(storage), PdfSuffix) /\ storage.pages.tag = "none"

\* The fragments one file appends to texts.
FileTexts(storage) ==
    IF EndsWith(FileName(storage), PdfSuffix)
    THEN IF storage.pages.tag = "none" THEN <<>>
         ELSE SelectSeq(storage.pages.items, LAMBDA t : t # <<>>)
    ELSE IF EndsWith(FileName(storage), TxtSuffix)
    THEN << Decode(storage.bytes) >>
    ELSE <<>>

\* The loop of _extract_text_from_uploads: the list built so far is lost
\* when a file raises, because the exception leaves the function.
RECURSIVE ExtractLoop(_, _)
ExtractLoop(files, texts) ==
    IF files = <<>> THEN [raised |-> FALSE, texts |-> texts]
    ELSE IF FileRaises(Head(files)) THEN [raised |-> TRUE, texts |-> <<>>]
    ELSE ExtractLoop(Tail(files), texts \o FileTexts(Head(files)))

\* _extract_text_from_uploads(files)
ExtractTextFromUploads(files) == ExtractLoop(files, <<>>)

\* ------------------------------------------------------------- paths
\* Paths are sequences of components; an absolute path starts with "/".
BASE_DIR == <<"/", "srv", "app">>
IMAGE_DIR == BASE_DIR \o <<"temp_images">>
DEFAULT_OUTPUT_PDF == BASE_DIR \o <<"ebook_gerado.pdf">>

IsAbsolute(path) == path # <<>> /\ path[1] = "/"

\* Path.resolve(): ".." removes the component before it, never the root.
RECURSIVE Resolve(_, _)
Resolve(rest, acc) ==
    IF rest = <<>> THEN acc
    ELSE IF Head(rest) = ".."
    THEN Resolve(Tail(rest),
                 IF Len(acc) > 1 THEN SubSeq(acc, 1, Len(acc) - 1) ELSE acc)
    ELSE Resolve(Tail(rest), Append(acc, Head(rest)))

\* The output path generate_ebook writes to.
OutputPdf(output_path_raw) ==
    IF output_path_raw # <<>>
    THEN IF ~IsAbsolute(output_path_raw)
         THEN Resolve(BASE_DIR \o output_path_raw, <<>>)
         ELSE Resolve(output_path_raw, <<>>)
    ELSE DEFAULT_OUTPUT_PDF

Parent(path) == SubSeq(path, 1, Len(path) - 1)

\* Path.mkdir(parents=True, exist_ok=True): the directory and its ancestors.
WithParents(dir) == { SubSeq(dir, 1, k) : k \in 1..Len(dir) }

OutputPathsRaw == { <<>>, <<"d", "..", "e", "p.pdf">>, <<"/", "x", "q.pdf">> }

OutputPaths == { OutputPdf(p) : p \in OutputPathsRaw }

\* ----------------------------------------------------------- requests
Reqs == {"r1", "r2"}

\* The form of one request.  A field the client omits reads as the empty
\* string (data.get(...) or "").
Forms ==
    [text_content : { <<>>, <<" ">>, <<" ", "t">> },
     google_api_key : { <<>>, <<" ">>, <<"g", " ">> },
     openai_api_key : { <<>>, <<" ">>, <<"o">> },
     output_path : OutputPathsRaw,
     files : SeqUpTo(Uploads, MaxUploads)]

NoFile == [tag |-> "nofile"]
\* The document WeasyPrint writes for a body and a cover fragment; by is the
\* request that wrote it.
Pdf(cover_image_html, ebook_markdown, r) ==
    [tag |-> "pdf", cover |-> cover_image_html, body |-> ebook_markdown, by |-> r]

\* The fragment embedding the cover image.
ImgTag == <<"<img>">>

\* The environment read at import: the four MYSQL_* settings and whether
\* pymysql could be imported.
StoreConfigs ==
    { [host |-> TRUE, db |-> TRUE, user |-> TRUE, password |-> TRUE, pymysql |-> TRUE],
      [host |-> TRUE, db |-> TRUE, user |-> TRUE, password |-> FALSE, pymysql |-> TRUE],
      [host |-> TRUE, db |-> TRUE, user |-> TRUE, password |-> TRUE, pymysql |-> FALSE] }

\* Every environment: each setting present or absent, pymysql importable or
\* not.
AllStoreConfigs ==
    [host : BOOLEAN, db : BOOLEAN, user : BOOLEAN, password : BOOLEAN,
     pymysql : BOOLEAN]

\* Mutant of CredentialsComplete: MYSQL_HOST is not looked at.
CredentialsWithoutHost(cfg) == cfg.db /\ cfg.user /\ cfg.password

\* all([MYSQL_HOST, MYSQL_DB, MYSQL_USER, MYSQL_PASSWORD])
CredentialsComplete(cfg) == cfg.host /\ cfg.db /\ cfg.user /\ cfg.password

\* A document and an archive row left by an earlier run of the service.
OldPdf == Pdf(<<>>, <<"o">>, "earlier")
OldRow ==
    [input_text |-> <<"o">>, reference_text |-> <<>>, markdown |-> <<"o">>,
     pdf_filename |-> "ebook_gerado.pdf", pdf_size |-> 1, pdf_content |-> OldPdf]

NoResponse == [status |-> 0, kind |-> "none", body |-> NoFile]

VARIABLES
    pc,               \* where each request's handler is
    request_files,    \* request.files.getlist("files"), until it is read
    text_content, google_api_key, openai_api_key, output_pdf,
    uploaded_text, references, raw_markdown,
    edited,           \* the trimmed text of the editorial response, or that the call raised
    ebook_markdown, cover_image_html,
    pdf_bytes,        \* what _store_record_in_mysql read from output_pdf
    store_result,     \* what _store_record_in_mysql returned
    raising,          \* the exception leaving _store_record_in_mysql, if any
    response,         \* what the client receives
    log,              \* the external operations each request performed, in order
    mysql_config,     \* MYSQL_* and pymysql, fixed at import
    genai_key,        \* the key genai.configure set last (process-wide)
    dirs,             \* directories on disk
    files,            \* output documents on disk
    scratch,          \* temp_images/cover_image.png
    table_exists, rows,  \* the archive table
    open_conns,       \* store connections open now
    content_response, \* the draft call's response object, while it is kept
    edit_response,    \* the editorial call's response object, while it is kept
    call_key,         \* the configured key each generate_content call went out with
    cover_title       \* the working title put in the image prompt

inputs == <<request_files, text_content, google_api_key, openai_api_key, output_pdf>>
drafting == <<raw_markdown, edited, ebook_markdown>>
texts == <<uploaded_text, references, drafting, cover_image_html>>
archiving == <<pdf_bytes, store_result, raising>>
locals == <<inputs, texts, archiving>>
store == <<table_exists, rows, open_conns>>
generation == <<content_response, edit_response, call_key>>
disk == <<dirs, files, scratch>>
vars == <<pc, locals, response, log, mysql_config, genai_key, disk, store, generation,
          cover_title>>

\* A response object that is no longer referenced.
Dropped == [tag |-> "dropped"]

\* The process after import, with one of the given store configurations.
InitWith(configs) ==
    /\ pc = [r \in Reqs |-> "idle"]
    /\ request_files = [r \in Reqs |-> <<>>]
    /\ text_content = [r \in Reqs |-> <<>>]
    /\ google_api_key = [r \in Reqs |-> <<>>]
    /\ openai_api_key = [r \in Reqs |-> <<>>]
    /\ output_pdf = [r \in Reqs |-> <<>>]
    /\ uploaded_text = [r \in Reqs |-> <<>>]
    /\ references = [r \in Reqs |-> <<>>]
    /\ raw_markdown = [r \in Reqs |-> <<>>]
    /\ edited = [r \in Reqs |-> [raised |-> FALSE, text |-> <<>>]]
    /\ ebook_markdown = [r \in Reqs |-> <<>>]
    /\ cover_image_html = [r \in Reqs |-> <<>>]
    /\ pdf_bytes = [r \in Reqs |-> NoFile]
    /\ store_result = [r \in Reqs |-> [ok |-> FALSE, error |-> "not run"]]
    /\ raising = [r \in Reqs |-> "none"]
    /\ response = [r \in Reqs |-> NoResponse]
    /\ log = [r \in Reqs |-> <<>>]
    /\ mysql_config \in configs
    /\ genai_key = <<>>
    /\ dirs = WithParents(IMAGE_DIR)
    /\ scratch = "absent"
    /\ \E earlier \in BOOLEAN :
        /\ earlier => \A setting \in DOMAIN mysql_config : mysql_config[setting]
        /\ files = [p \in OutputPaths |->
                      IF earlier /\ p = DEFAULT_OUTPUT_PDF THEN OldPdf ELSE NoFile]
        /\ table_exists = earlier
        /\ rows = IF earlier THEN <<OldRow>> ELSE <<>>
    /\ open_conns = 0
    /\ content_response = [r \in Reqs |-> Dropped]
    /\ edit_response = [r \in Reqs |-> Dropped]
    /\ call_key = [r \in Reqs |-> [draft |-> <<>>, edit |-> <<>>]]
    /\ cover_title = [r \in Reqs |-> <<>>]

Init == InitWith(StoreConfigs)

\* ------------------------------------------------------ generate_ebook
Logged(r, events) == log' = [log EXCEPT ![r] = @ \o events]

\* The handler returns (or an exception leaves it) and the client is answered.
Respond(r, status, kind, body) ==
    /\ response' = [response EXCEPT ![r] = [status |-> status, kind |-> kind, body |-> body]]
    /\ pc' = [pc EXCEPT ![r] = "done"]

Goto(r, label) == pc' = [pc EXCEPT ![r] = label] /\ UNCHANGED response

\* Lines 180-196: the form is read and trimmed, the output path resolved and
\* its directory created.
BeginWith(r, forms) ==
    /\ pc[r] = "idle"
    /\ \E f \in forms :
        /\ request_files' = [request_files EXCEPT ![r] = f.files]
        /\ text_content' = [text_content EXCEPT ![r] = Strip(f.text_content)]
        /\ google_api_key' = [google_api_key EXCEPT ![r] = Strip(f.google_api_key)]
        /\ openai_api_key' = [openai_api_key EXCEPT ![r] = Strip(f.openai_api_key)]
        /\ output_pdf' = [output_pdf EXCEPT ![r] = OutputPdf(f.output_path)]
        /\ dirs' = dirs \cup WithParents(Parent(OutputPdf(f.output_path)))
    /\ Goto(r, "validate")
    /\ UNCHANGED <<texts, archiving, log, mysql_config, genai_key, files, scratch, store,
                   generation, cover_title>>

Begin(r) == BeginWith(r, Forms)

\* Mutant of ValidationError: the credential check is missing.
ValidationErrorTextOnly(text, key) ==
    IF text = <<>> THEN "Conteudo de texto e obrigatorio." ELSE "none"

\* The two checks of lines 198-202, in their order.
ValidationError(text, key) ==
    IF text = <<>> THEN "Conteudo de texto e obrigatorio."
    ELSE IF key = <<>> THEN "Chave API do Google Gemini e obrigatoria."
    ELSE "none"

Validate(r) ==
    /\ pc[r] = "validate"
    /\ LET error == ValidationError(text_content[r], google_api_key[r])
       IN IF error # "none"
          THEN Respond(r, 400, error, NoFile)
          ELSE Goto(r, "init_models")
    /\ UNCHANGED <<locals, log, mysql_config, genai_key, disk, store, generation, cover_title>>

\* Lines 204-219: genai.configure sets the process-wide key, then the two
\* model handles are built; either may raise.
InitModels(r) ==
    /\ pc[r] = "init_models"
    /\ \E outcome \in {"ok", "configure raises", "GenerativeModel raises"} :
        /\ genai_key' = IF outcome = "configure raises" THEN genai_key
                        ELSE google_api_key[r]
        /\ Logged(r, IF outcome = "ok" THEN <<"init_models">>
                     ELSE <<"init_models", "init_failed">>)
        /\ IF outcome = "ok"
           THEN Goto(r, "extract")
           ELSE Respond(r, 400, "Falha ao inicializar os modelos Gemini", NoFile)
    /\ UNCHANGED <<locals, mysql_config, disk, store, generation, cover_title>>

\* Lines 221-225.  The upload streams are read to their end (storage.read())
\* and request.files is not used again.  An exception of
\* _extract_text_from_uploads is caught nowhere: it leaves generate_ebook and
\* Flask answers 500.
Extract(r) ==
    /\ pc[r] = "extract"
    /\ LET result == ExtractTextFromUploads(request_files[r])
       IN IF result.raised
          THEN /\ Respond(r, 500, "unhandled exception", NoFile)
               /\ UNCHANGED <<request_files, uploaded_text, references>>
          ELSE /\ request_files' = [request_files EXCEPT ![r] = <<>>]
               /\ uploaded_text' = [uploaded_text EXCEPT ![r] = result.texts]
               /\ references' = [references EXCEPT ![r] =
                                   Strip(Join(result.texts, <<"\n">>))]
               /\ Goto(r, "draft")
    /\ Logged(r, <<"extract">>)
    /\ UNCHANGED <<text_content, google_api_key, openai_api_key, output_pdf, drafting,
                   cover_image_html, archiving, mysql_config, genai_key, disk, store,
                   generation, cover_title>>

\* Mutant of DraftMissing: an empty draft is let through.
DraftNeverMissing(raw) == FALSE

\* Line 272: not raw_markdown
DraftMissing(raw) == raw = <<>>

\* Lines 266-273: one call of content_model.generate_content.  The handle
\* was built without a key (line 209): the call goes out with the key
\* genai.configure set last in the process.  The response object is read at
\* line 271 only; keep says whether the state goes on holding it.
DraftWith(r, responses, keep) ==
    /\ pc[r] = "draft"
    /\ \/ /\ Respond(r, 500, "Falha ao gerar o rascunho do ebook", NoFile)
          /\ Logged(r, <<"draft", "draft_raised">>)
          /\ UNCHANGED <<raw_markdown, content_response>>
       \/ \E resp \in responses :
            LET raw == Strip(ResponseText(resp))
            IN /\ raw_markdown' = [raw_markdown EXCEPT ![r] = raw]
               /\ content_response' = [content_response EXCEPT ![r] =
                                         IF keep THEN resp ELSE Dropped]
               /\ Logged(r, <<"draft">>)
               /\ IF DraftMissing(raw)
                  THEN Respond(r, 500, "O modelo nao retornou texto para o rascunho.", NoFile)
                  ELSE Goto(r, "edit")
    /\ call_key' = [call_key EXCEPT ![r].draft = genai_key]
    /\ UNCHANGED <<inputs, uploaded_text, references, edited, ebook_markdown,
                   cover_image_html, archiving, mysql_config, genai_key, disk, store,
                   edit_response, cover_title>>

Draft(r) == DraftWith(r, Responses, FALSE)

\* Mutant of EditedOrDraft: no fallback to the draft.
EditedOnly(text, raw) == text

\* Line 292: edited or raw_markdown
EditedOrDraft(text, raw) == IF text # <<>> THEN text ELSE raw

\* Lines 290-295: one call of edit_model.generate_content; an exception
\* leaves the draft as the final text.
EditWith(r, responses, keep) ==
    /\ pc[r] = "edit"
    /\ \/ /\ edited' = [edited EXCEPT ![r] = [raised |-> TRUE, text |-> <<>>]]
          /\ ebook_markdown' = [ebook_markdown EXCEPT ![r] = raw_markdown[r]]
          /\ UNCHANGED edit_response
       \/ \E resp \in responses :
            LET text == Strip(ResponseText(resp))
            IN /\ edited' = [edited EXCEPT ![r] = [raised |-> FALSE, text |-> text]]
               /\ edit_response' = [edit_response EXCEPT ![r] =
                                      IF keep THEN resp ELSE Dropped]
               /\ ebook_markdown' = [ebook_markdown EXCEPT ![r] =
                                       EditedOrDraft(text, raw_markdown[r])]
    /\ call_key' = [call_key EXCEPT ![r].edit = genai_key]
    /\ Logged(r, <<"edit">>)
    /\ Goto(r, "cover")
    /\ UNCHANGED <<inputs, uploaded_text, references, raw_markdown, cover_image_html,
                   archiving, mysql_config, genai_key, disk, store, content_response,
                   cover_title>>

\* Mutant of Edit: an editorial call that raised is made once more.
EditRetried(r) ==
    \/ EditWith(r, Responses, FALSE)
    \/ /\ pc[r] = "edit" /\ call_key[r].edit = <<>>
       /\ call_key' = [call_key EXCEPT ![r].edit = genai_key]
       /\ Logged(r, <<"edit">>)
       /\ UNCHANGED <<pc, response, locals, mysql_config, genai_key, disk, store,
                      content_response, edit_response, cover_title>>

Edit(r) == EditWith(r, Responses, FALSE)

\* Mutant of CoverWanted: the cover is attempted without a credential.
CoverAlways(key) == TRUE

\* Line 298: if openai_api_key
CoverWanted(key) == key # <<>>

\* Mutant of AfterCover: the record is stored before the document is rendered.
AfterCoverStore == "store"

\* Where the handler goes after the cover block (line 329 on).
AfterCover == "render"

\* str.splitlines(), for the line break the drafts contain.
RECURSIVE SplitLines(_)
SplitLines(s) ==
    IF s = <<>> THEN <<>>
    ELSE LET breaks == {i \in DOMAIN s : s[i] = "\n"}
             end == IF breaks = {} THEN Len(s) + 1
                    ELSE CHOOSE i \in breaks : \A j \in breaks : i <= j
         IN <<SubSeq(s, 1, end - 1)>> \o SplitLines(SubSeq(s, end + 1, Len(s)))

\* The title used when the draft gives none (line 302).
DefaultCoverTitle == <<"Capa de ebook">>

\* Lines 301-302: first_heading is the draft's first line without the "#"
\* and " " characters at its two ends.
CoverTitle(raw) ==
    LET first_heading == IF raw # <<>>
                         THEN Strip(StripChars(SplitLines(raw)[1], {"#", " "}))
                         ELSE <<>>
    IN IF first_heading # <<>> THEN first_heading ELSE DefaultCoverTitle

\* The steps of the cover block, in their order, and the step that fails.
CoverOutcomes ==
    {"OpenAI raises", "generate raises", "no payload", "open raises",
     "b64decode raises", "ok"}

\* Mutant of CoverFragment: the fragment is assigned before the scratch
\* file is written.
CoverFragmentEarly(outcome) ==
    IF outcome \in {"open raises", "b64decode raises", "ok"} THEN ImgTag ELSE <<>>

\* Lines 296 and 322-325: the fragment is assigned after every other step.
CoverFragment(outcome) == IF outcome = "ok" THEN ImgTag ELSE <<>>

\* Lines 297-327.  Every step is inside one try whose except swallows the
\* exception.  The scratch file is opened for writing (and so truncated)
\* before the payload is decoded.
Cover(r) ==
    /\ pc[r] = "cover"
    /\ IF CoverWanted(openai_api_key[r])
       THEN \E outcome \in CoverOutcomes :
              /\ Logged(r, CASE outcome = "OpenAI raises" -> <<"cover">>
                             [] outcome = "ok" -> <<"cover", "image", "cover_ok">>
                             [] OTHER -> <<"cover", "image">>)
              /\ cover_title' = [cover_title EXCEPT ![r] =
                                   IF outcome = "OpenAI raises" THEN @
                                   ELSE CoverTitle(raw_markdown[r])]
              /\ scratch' = CASE outcome = "ok" -> "image"
                              [] outcome = "b64decode raises" -> "empty"
                              [] OTHER -> scratch
              /\ cover_image_html' = [cover_image_html EXCEPT ![r] =
                                        CoverFragment(outcome)]
       ELSE /\ cover_image_html' = [cover_image_html EXCEPT ![r] = <<>>]
            /\ UNCHANGED <<scratch, log, cover_title>>
    /\ Goto(r, AfterCover)
    /\ UNCHANGED <<inputs, uploaded_text, references, drafting, archiving,
                   mysql_config, genai_key, dirs, files, store, generation>>

\* Lines 329-430: the final text and the cover fragment are written as a PDF
\* to output_pdf, replacing what was there.
Render(r) ==
    /\ pc[r] = "render"
    /\ \/ /\ files' = [files EXCEPT ![output_pdf[r]] =
                         Pdf(cover_image_html[r], ebook_markdown[r], r)]
          /\ Logged(r, <<"render", "rendered">>)
          /\ Goto(r, "store")
       \/ /\ Respond(r, 500, "Falha ao gerar o PDF", NoFile)
          /\ Logged(r, <<"render">>)
          /\ UNCHANGED files
    /\ UNCHANGED <<locals, mysql_config, genai_key, dirs, scratch, store, generation,
                   cover_title>>

\* ----------------------------------------------- _store_record_in_mysql
Unavailable == [ok |-> FALSE, error |-> "Conexao indisponivel."]

\* Lines 141-143 with _connect_mysql (92-112): None without a complete
\* configuration or without pymysql, else one pymysql.connect, of which only
\* a MySQLError is caught.
Connect(r) ==
    /\ pc[r] = "store"
    /\ IF ~CredentialsComplete(mysql_config) \/ ~mysql_config.pymysql
       THEN /\ store_result' = [store_result EXCEPT ![r] = Unavailable]
            /\ Logged(r, <<"store">>)
            /\ Goto(r, "send")
            /\ UNCHANGED <<raising, open_conns>>
       ELSE \/ /\ open_conns' = open_conns + 1
               /\ Logged(r, <<"store", "connect", "connected">>)
               /\ Goto(r, "ensure_table")
               /\ UNCHANGED <<store_result, raising>>
            \/ /\ store_result' = [store_result EXCEPT ![r] = Unavailable]
               /\ Logged(r, <<"store", "connect">>)
               /\ Goto(r, "send")
               /\ UNCHANGED <<raising, open_conns>>
            \/ /\ raising' = [raising EXCEPT ![r] = "RuntimeError"]
               /\ Logged(r, <<"store", "connect">>)
               /\ Respond(r, 500, "unhandled exception", NoFile)
               /\ UNCHANGED <<store_result, open_conns>>
    /\ UNCHANGED <<inputs, texts, pdf_bytes, mysql_config, genai_key, disk,
                   table_exists, rows, generation, cover_title>>

\* Line 146 with _ensure_table_exists (115-131): CREATE TABLE IF NOT EXISTS.
EnsureTable(r) ==
    /\ pc[r] = "ensure_table"
    /\ \/ /\ table_exists' = TRUE
          /\ Goto(r, "read_pdf")
          /\ UNCHANGED store_result
       \/ /\ store_result' = [store_result EXCEPT ![r] =
                                [ok |-> FALSE, error |-> "MySQLError"]]
          /\ Goto(r, "close")
          /\ UNCHANGED table_exists
    /\ Logged(r, <<"ensure_table">>)
    /\ UNCHANGED <<inputs, texts, pdf_bytes, raising, mysql_config, genai_key, disk,
                   rows, open_conns, generation, cover_title>>

\* Line 147: pdf_path.read_bytes(), inside the try whose only handler is
\* for MySQLError; an OSError goes to the finally clause and on.
ReadPdf(r) ==
    /\ pc[r] = "read_pdf"
    /\ \/ /\ files[output_pdf[r]] # NoFile
          /\ pdf_bytes' = [pdf_bytes EXCEPT ![r] = files[output_pdf[r]]]
          /\ Goto(r, "insert")
          /\ UNCHANGED raising
       \/ /\ raising' = [raising EXCEPT ![r] = "OSError"]
          /\ Goto(r, "close")
          /\ UNCHANGED pdf_bytes
    /\ Logged(r, <<"read_pdf">>)
    /\ UNCHANGED <<inputs, texts, store_result, mysql_config, genai_key, disk, store,
                   generation, cover_title>>

\* len(pdf_bytes)
PdfSize(content) == Len(content.cover) + Len(content.body)

\* Mutant of Row: the draft is archived instead of the final text.
RowWithDraft(r) ==
    [input_text |-> text_content[r], reference_text |-> references[r],
     markdown |-> raw_markdown[r],
     pdf_filename |-> output_pdf[r][Len(output_pdf[r])],
     pdf_size |-> PdfSize(pdf_bytes[r]), pdf_content |-> pdf_bytes[r]]

\* The values of the INSERT (lines 156-164).
Row(r) ==
    [input_text |-> text_content[r], reference_text |-> references[r],
     markdown |-> ebook_markdown[r],
     pdf_filename |-> output_pdf[r][Len(output_pdf[r])],
     pdf_size |-> PdfSize(pdf_bytes[r]), pdf_content |-> pdf_bytes[r]]

\* Mutant of InsertRow: the new row replaces the table's rows.
ReplaceRows(table, row) == <<row>>

\* INSERT INTO the table: the row is added after the rows there.
InsertRow(table, row) == Append(table, row)

\* Lines 148-168: the INSERT; a MySQLError becomes (False, message).
Insert(r) ==
    /\ pc[r] = "insert"
    /\ \/ /\ rows' = InsertRow(rows, Row(r))
          /\ store_result' = [store_result EXCEPT ![r] = [ok |-> TRUE, error |-> "none"]]
          /\ Logged(r, <<"insert", "inserted">>)
       \/ /\ store_result' = [store_result EXCEPT ![r] =
                                [ok |-> FALSE, error |-> "MySQLError"]]
          /\ Logged(r, <<"insert">>)
          /\ UNCHANGED rows
    /\ Goto(r, "close")
    /\ UNCHANGED <<inputs, texts, pdf_bytes, raising, mysql_config, genai_key, disk,
                   table_exists, open_conns, generation, cover_title>>

\* Mutant of Close: the connection is closed on the return path only, as
\* with a close() at the end of the try block instead of a finally clause.
CloseOnReturnOnly(r) ==
    /\ pc[r] = "close"
    /\ IF raising[r] # "none"
       THEN /\ Respond(r, 500, "unhandled exception", NoFile)
            /\ UNCHANGED <<open_conns, log>>
       ELSE /\ open_conns' = open_conns - 1
            /\ Logged(r, <<"close">>)
            /\ Goto(r, "send")
    /\ UNCHANGED <<locals, mysql_config, genai_key, disk, table_exists, rows, generation,
                   cover_title>>

\* Lines 169-170: finally connection.close(); then the function returns, or
\* the exception it did not catch leaves generate_ebook.
Close(r) ==
    /\ pc[r] = "close"
    /\ open_conns' = open_conns - 1
    /\ Logged(r, <<"close">>)
    /\ IF raising[r] # "none"
       THEN Respond(r, 500, "unhandled exception", NoFile)
       ELSE Goto(r, "send")
    /\ UNCHANGED <<locals, mysql_config, genai_key, disk, table_exists, rows, generation,
                   cover_title>>

\* Mutant of Send: the file at the default path is sent.
SendDefaultPath(r) ==
    /\ pc[r] = "send"
    /\ Logged(r, <<"send_file">>)
    /\ Respond(r, 200, "pdf", files[DEFAULT_OUTPUT_PDF])
    /\ UNCHANGED <<locals, mysql_config, genai_key, disk, store, generation, cover_title>>

\* Lines 439-447: a failed store is printed, and send_file reads output_pdf.
Send(r) ==
    /\ pc[r] = "send"
    /\ Logged(r, <<"send_file">>)
    /\ Respond(r, 200, "pdf", files[output_pdf[r]])
    /\ UNCHANGED <<locals, mysql_config, genai_key, disk, store, generation, cover_title>>

\* ------------------------------------------------------ specification
\* The requests Spec runs: one request from its arrival to its response.
Single == {"r1"}

Next ==
    \E r \in Single :
        \/ Begin(r) \/ Validate(r) \/ InitModels(r) \/ Extract(r)
        \/ Draft(r) \/ Edit(r) \/ Cover(r) \/ Render(r)
        \/ Connect(r) \/ EnsureTable(r) \/ ReadPdf(r) \/ Insert(r) \/ Close(r)
        \/ Send(r)

Spec == Init /\ [][Next]_vars

\* ------------------------------------------- concurrent specification
\* Two clients, each with a Gemini key of its own, send a valid request
\* with or without an output path and without an OpenAI key; the server's
\* threads interleave the steps of the two handlers.
ClientKey(r) == IF r = "r1" THEN <<"g">> ELSE <<"h">>

ConcForms(r) ==
    [text_content : { <<"t">> },
     google_api_key : { ClientKey(r) },
     openai_api_key : { <<>> },
     output_path : { <<>>, <<"/", "x", "q.pdf">> },
     files : { <<>> }]

\* What the generation calls answer in the concurrent specification.
ConcResponses == { [text |-> Str(<<"#", "a">>), candidates |-> None] }

NextConc ==
    \E r \in Reqs :
        \/ BeginWith(r, ConcForms(r)) \/ Validate(r) \/ InitModels(r) \/ Extract(r)
        \/ DraftWith(r, ConcResponses, FALSE) \/ EditWith(r, ConcResponses, FALSE)
        \/ Cover(r) \/ Render(r)
        \/ Connect(r) \/ EnsureTable(r) \/ ReadPdf(r) \/ Insert(r) \/ Close(r)
        \/ Send(r)

SpecConc == Init /\ [][NextConc]_vars

\* ------------------------------------------ store-configuration specification
\* One valid request in a process started under any environment.
InitStore == InitWith(AllStoreConfigs)

NextStore ==
    \E r \in Single :
        \/ BeginWith(r, ConcForms(r)) \/ Validate(r) \/ InitModels(r) \/ Extract(r)
        \/ DraftWith(r, ConcResponses, FALSE) \/ EditWith(r, ConcResponses, FALSE)
        \/ Cover(r) \/ Render(r)
        \/ Connect(r) \/ EnsureTable(r) \/ ReadPdf(r) \/ Insert(r) \/ Close(r)
        \/ Send(r)

SpecStore == InitStore /\ [][NextStore]_vars

\* ------------------------------------------- normalization specification
\* One valid request up to the end of the editorial pass, the two response
\* objects kept next to the texts made of them.
NormForms ==
    [text_content : { <<"t">> }, google_api_key : { <<"g">> },
     openai_api_key : { <<>> }, output_path : { <<>> }, files : { <<>> }]

NextNorm ==
    \E r \in Single :
        \/ BeginWith(r, NormForms) \/ Validate(r) \/ InitModels(r) \/ Extract(r)
        \/ DraftWith(r, Responses, TRUE) \/ EditWith(r, Responses, TRUE)

\* The process runs without pymysql: the store is not reached here.
InitNorm == InitWith({cfg \in StoreConfigs : ~cfg.pymysql})

SpecNorm == InitNorm /\ [][NextNorm]_vars

\* ------------------------------------------------------------ properties
Has(r, event) == \E i \in DOMAIN log[r] : log[r][i] = event
Count(r, event) == Cardinality({i \in DOMAIN log[r] : log[r][i] = event})
\* The place of the first event of that name in the request's log.
Pos(r, event) ==
    CHOOSE i \in DOMAIN log[r] :
        log[r][i] = event /\ \A j \in 1..(i - 1) : log[r][j] # event
HasNone(r, events) == \A e \in events : ~Has(r, e)
IsPrefix(s, t) == Len(s) <= Len(t) /\ SubSeq(t, 1, Len(s)) = s

\* C1: a request whose trimmed text or trimmed Gemini key is empty, or whose
\* model initialization fails, ends with a 400 error, and has made no
\* generation call, no image call, no rendering and no store access.
C1_RejectedBeforeAnyCall ==
    \A r \in Reqs :
        LET invalid == pc[r] # "idle"
                       /\ (text_content[r] = <<>> \/ google_api_key[r] = <<>>)
            calls == {"draft", "edit", "cover", "image", "render", "store",
                      "connect", "insert"}
        IN /\ invalid => /\ pc[r] \in {"validate", "done"}
                         /\ pc[r] = "done" => response[r].status = 400
                         /\ HasNone(r, calls \cup {"init_models"})
           /\ Has(r, "init_failed") => /\ pc[r] = "done"
                                       /\ response[r].status = 400
                                       /\ HasNone(r, calls)

C1_Witness ==
    \E r \in Reqs :
        /\ pc[r] = "done" /\ response[r].status = 400
        /\ text_content[r] # <<>> /\ google_api_key[r] = <<>>

\* C2: when the draft call raises or the trimmed normalized draft is empty,
\* the request ends with a 500 error after exactly one draft call, and no
\* editorial call, cover synthesis, rendering or archiving takes place.
C2_NoDraftIsFatal ==
    \A r \in Reqs :
        (Has(r, "draft") /\ (Has(r, "draft_raised") \/ raw_markdown[r] = <<>>))
        => /\ pc[r] = "done"
           /\ response[r].status = 500
           /\ Count(r, "draft") = 1
           /\ HasNone(r, {"edit", "cover", "image", "render", "store", "connect",
                          "insert", "send_file"})

C2_Witness ==
    \E r \in Reqs :
        /\ pc[r] = "done" /\ response[r].status = 500
        /\ Has(r, "draft") /\ ~Has(r, "draft_raised") /\ raw_markdown[r] = <<>>

\* C3: after the editorial pass, the final text is the draft when the call
\* raised or its trimmed normalized output is empty, and that trimmed output
\* otherwise; the handler goes on to rendering, and the rendered document
\* and the archived row carry that final text.
C3_FinalText ==
    \A r \in Single :
        Has(r, "edit")
        => /\ raw_markdown[r] # <<>>
           /\ ebook_markdown[r] =
                IF edited[r].raised \/ edited[r].text = <<>>
                THEN raw_markdown[r] ELSE edited[r].text
           /\ pc[r] \in {"cover", "render"} \/ Has(r, "render")
           /\ Has(r, "rendered") => files[output_pdf[r]].body = ebook_markdown[r]
           /\ Has(r, "inserted") => rows[Len(rows)].markdown = ebook_markdown[r]

C3_Witness ==
    \E r \in Single :
        /\ Has(r, "inserted")
        /\ ~edited[r].raised /\ edited[r].text = <<>>
        /\ rows[Len(rows)].markdown = raw_markdown[r]
        /\ files[output_pdf[r]].body = raw_markdown[r]

\* C4 (as claimed): a request whose validation, model initialization, draft
\* and rendering succeeded receives the rendered document, whatever happens
\* in the editorial pass, the cover synthesis and the archiving step.
C4_DocumentAlwaysDelivered ==
    \A r \in Reqs :
        (pc[r] = "done" /\ Has(r, "rendered"))
        => response[r].status = 200 /\ response[r].kind = "pdf"

\* C5: without an image credential (empty after trimming) the cover block
\* is never entered, no image call is made, and the cover fragment given to
\* the renderer is empty.
C5_NoCredentialNoCover ==
    \A r \in Single :
        (pc[r] # "idle" /\ openai_api_key[r] = <<>>)
        => /\ HasNone(r, {"cover", "image"})
           /\ cover_image_html[r] = <<>>
           /\ Has(r, "rendered") => files[output_pdf[r]].cover = <<>>

C5_Witness ==
    \E r \in Single :
        /\ response[r].status = 200
        /\ openai_api_key[r] = <<>>
        /\ response[r].body.cover = <<>>
        /\ HasNone(r, {"cover", "image"})

\* Connections a request opened and has not closed.
OpenBy(r) == Count(r, "connected") - Count(r, "close")

RECURSIVE SumOpen(_)
SumOpen(S) ==
    IF S = {} THEN 0
    ELSE LET r == CHOOSE x \in S : TRUE IN OpenBy(r) + SumOpen(S \ {r})

\* C6: a request opens at most one store connection; once the archiving
\* step has returned or let an exception out, the connection it opened has
\* been closed exactly once, and nothing was closed when none was opened; no
\* connection stays open after the request.
C6_ConnectionClosedOnce ==
    /\ open_conns = SumOpen(Reqs)
    /\ \A r \in Reqs :
        /\ Count(r, "connected") <= 1
        /\ OpenBy(r) \in {0, 1}
        /\ OpenBy(r) = 1 <=> pc[r] \in {"ensure_table", "read_pdf", "insert", "close"}
        /\ pc[r] \in {"send", "done"} => Count(r, "close") = Count(r, "connected")

C6_Witness ==
    \E r \in Reqs :
        /\ pc[r] = "done" /\ raising[r] = "OSError"
        /\ Count(r, "connected") = 1 /\ Count(r, "close") = 1
        /\ open_conns = 0

\* C7: in one request the draft call comes before the editorial call, the
\* editorial call before rendering, rendering before the archiving step,
\* and the archiving step has returned (its connection closed) before the
\* document is sent.
C7_StageOrder ==
    \A r \in Reqs :
        /\ Has(r, "edit") => Has(r, "draft") /\ Pos(r, "draft") < Pos(r, "edit")
        /\ Has(r, "render") => Has(r, "edit") /\ Pos(r, "edit") < Pos(r, "render")
        /\ Has(r, "store") => Has(r, "rendered") /\ Pos(r, "rendered") < Pos(r, "store")
        /\ Has(r, "send_file") =>
            /\ Has(r, "store") /\ Pos(r, "store") < Pos(r, "send_file")
            /\ store_result[r].error # "not run"
            /\ OpenBy(r) = 0
            /\ log[r][Len(log[r])] = "send_file"
            /\ \A e \in {"connect", "ensure_table", "read_pdf", "insert", "close"} :
                Has(r, e) => Pos(r, e) < Pos(r, "send_file")

C7_Witness ==
    \E r \in Reqs :
        /\ response[r].status = 200
        /\ Has(r, "image") /\ Has(r, "inserted") /\ Has(r, "send_file")

\* C8: a request inserts at most one archive row, and only after its
\* rendering succeeded; a failed rendering ends the request with a 500 error
\* and no store access; the rows of the table are never changed or removed.
C8_ArchiveOnceAfterRender ==
    /\ [](\A r \in Reqs :
            /\ Count(r, "insert") <= 1
            /\ Has(r, "insert") =>
                Has(r, "rendered") /\ Pos(r, "rendered") < Pos(r, "insert")
            /\ (Has(r, "render") /\ ~Has(r, "rendered")) =>
                /\ pc[r] = "done" /\ response[r].status = 500
                /\ HasNone(r, {"store", "connect", "insert"}))
    /\ [][IsPrefix(rows, rows') /\ Len(rows') <= Len(rows) + 1]_vars

C8_Witness ==
    \E r \in Reqs : Has(r, "inserted") /\ Len(rows) = 2 /\ rows[1] = OldRow

\* C9 (as claimed): no exception leaves the archiving step; it always
\* returns a (bool, message) result.
C9_StoreNeverRaises ==
    \A r \in Reqs :
        /\ raising[r] = "none"
        /\ (Has(r, "store") /\ pc[r] \in {"send", "done"}) =>
              store_result[r].error # "not run"

\* What extraction would return if a file that cannot be parsed were skipped.
RECURSIVE BestEffortTexts(_)
BestEffortTexts(uploads) ==
    IF uploads = <<>> THEN <<>>
    ELSE (IF FileRaises(Head(uploads)) THEN <<>> ELSE FileTexts(Head(uploads)))
         \o BestEffortTexts(Tail(uploads))

\* C10 (as claimed): extraction is never aborted by one file; it yields the
\* fragments of every file that can be parsed and the handler goes on.
C10_ExtractionBestEffort ==
    [][\A r \in Reqs :
         (pc[r] = "extract" /\ pc'[r] # "extract")
         => /\ pc'[r] = "draft"
            /\ uploaded_text'[r] = BestEffortTexts(request_files[r])]_vars

\* The upload's name ends with the suffix, whatever the case of its letters.
NamedLike(storage, suffix) ==
    /\ IsStr(storage.filename)
    /\ LET name == storage.filename.val
           skip == Len(name) - Len(suffix)
       IN /\ skip >= 0
          /\ \A i \in DOMAIN suffix : LowerChar(name[skip + i]) = suffix[i]

\* The fragments one readable upload contributes: the text of each page
\* that has some, in page order; or the decoded text of a text file.
FragmentsOf(storage) ==
    IF NamedLike(storage, <<".", "p", "d", "f">>)
    THEN LET pages == storage.pages.items
             kept == {i \in DOMAIN pages : pages[i] # <<>>}
             Nth(n) == CHOOSE i \in kept : Cardinality({j \in kept : j < i}) = n - 1
         IN [n \in 1..Cardinality(kept) |-> pages[Nth(n)]]
    ELSE IF NamedLike(storage, <<".", "t", "x", "t">>)
    THEN << SelectSeq(storage.bytes, LAMBDA b : b # BadByte) >>
    ELSE <<>>

RECURSIVE FragmentsInOrder(_)
FragmentsInOrder(uploads) ==
    IF uploads = <<>> THEN <<>>
    ELSE FragmentsInOrder(SubSeq(uploads, 1, Len(uploads) - 1))
         \o FragmentsOf(uploads[Len(uploads)])

AllReadable(uploads) ==
    \A i \in DOMAIN uploads :
        NamedLike(uploads[i], <<".", "p", "d", "f">>) => uploads[i].pages.tag = "list"

Others(r) == {q \in Reqs \ {r} : pc[q] # "idle"}

\* C12: a request whose output path differs from that of every other request
\* returns, and archives, the document it rendered itself.  (Two requests
\* that both omit the path share the default file: C12_Witness is the
\* interleaving in which one of them returns and archives the other's.)
C12_OwnDocumentOnDistinctPaths ==
    \A r \in Reqs :
        (pc[r] # "idle" /\ \A q \in Others(r) : output_pdf[q] # output_pdf[r])
        => /\ response[r].kind = "pdf" => response[r].body = Pdf(<<>>, ebook_markdown[r], r)
           /\ pdf_bytes[r] # NoFile => pdf_bytes[r].by = r
           /\ Has(r, "inserted") =>
                \E i \in DOMAIN rows : rows[i].pdf_content.by = r

C12_Witness ==
    \E r \in Reqs : \E q \in Others(r) :
        /\ output_pdf[r] = DEFAULT_OUTPUT_PDF /\ output_pdf[q] = DEFAULT_OUTPUT_PDF
        /\ response[r].kind = "pdf" /\ response[r].body.by = q
        /\ Has(r, "inserted") /\ pdf_bytes[r].by = q

\* C13: requests with distinct output paths are independent: the credential
\* a request configured is the one its draft call and its editorial call go
\* out with, whatever the other requests do meanwhile.
C13_RequestsIndependent ==
    \A r \in Reqs :
        (pc[r] # "idle" /\ \A q \in Others(r) : output_pdf[q] # output_pdf[r])
        => /\ Has(r, "draft") => call_key[r].draft = google_api_key[r]
           /\ Has(r, "edit") => call_key[r].edit = google_api_key[r]

\* C14: a request attempts the draft call, the editorial call, the image
\* call and the store connection at most once each; none is retried.
C14_EachCollaboratorOnce ==
    \A r \in Reqs :
        \A call \in {"draft", "edit", "image", "connect"} : Count(r, call) <= 1

C14_Witness ==
    \E r \in Reqs :
        /\ pc[r] = "done"
        /\ \A call \in {"draft", "edit", "image", "connect"} : Count(r, call) = 1
        /\ edited[r].raised /\ cover_image_html[r] = <<>> /\ ~store_result[r].ok

\* C15: when MYSQL_HOST, MYSQL_DB, MYSQL_USER or MYSQL_PASSWORD is absent, or
\* pymysql is not available, no connection is attempted, no table is created
\* and no row is inserted, and a request whose document was rendered still
\* returns that document.
C15_NoStoreWithoutConfiguration ==
    LET absent == \/ ~mysql_config.host \/ ~mysql_config.db
                  \/ ~mysql_config.user \/ ~mysql_config.password
    IN (absent \/ ~mysql_config.pymysql)
       => /\ open_conns = 0 /\ ~table_exists /\ rows = <<>>
          /\ \A r \in Reqs :
               /\ HasNone(r, {"connect", "ensure_table", "insert"})
               /\ Has(r, "rendered") =>
                    /\ pc[r] \in {"store", "send", "done"}
                    /\ pc[r] = "done" =>
                         /\ response[r].status = 200
                         /\ response[r].body =
                              Pdf(cover_image_html[r], ebook_markdown[r], r)

C15_Witness ==
    \E r \in Reqs :
        /\ ~mysql_config.host /\ mysql_config.db /\ mysql_config.user
        /\ mysql_config.password /\ mysql_config.pymysql
        /\ Has(r, "store") /\ pc[r] = "done" /\ response[r].status = 200

\* A str with a character that is not white space.
NonBlank(value) ==
    /\ value.tag = "str"
    /\ \E i \in DOMAIN value.val : value.val[i] \notin {" ", "\n", "\t"}

\* The places <<candidate, part>> of a response's str part texts.
TextPlaces(candidates) ==
    UNION { { <<c, p>> : p \in { n \in DOMAIN candidates[c].content.parts.items :
                                   candidates[c].content.parts.items[n].text.tag = "str" } }
            : c \in { n \in DOMAIN candidates :
                        /\ candidates[n].content.tag = "obj"
                        /\ candidates[n].content.parts.tag = "list" } }

Before(a, b) == a[1] < b[1] \/ (a[1] = b[1] /\ a[2] < b[2])

RECURSIVE TextsAt(_, _)
TextsAt(candidates, places) ==
    IF places = {} THEN <<>>
    ELSE LET last == CHOOSE a \in places : \A b \in places \ {a} : Before(b, a)
         IN TextsAt(candidates, places \ {last})
            \o candidates[last[1]].content.parts.items[last[2]].text.val

\* What the normalization is to give for a response.
Normalized(resp) ==
    IF NonBlank(resp.text) THEN resp.text.val
    ELSE IF resp.candidates.tag = "none" THEN <<>>
    ELSE TextsAt(resp.candidates.items, TextPlaces(resp.candidates.items))

C17_CoverFailureTolerated ==
    \A r \in Reqs :
        /\ (Has(r, "cover") /\ ~Has(r, "cover_ok"))
           => /\ cover_image_html[r] = <<>>
              /\ pc[r] = "render" \/ Has(r, "render")
              /\ \A i \in DOMAIN rows : rows[i].pdf_content.by = r
                                        => rows[i].pdf_content.cover = <<>>
        /\ cover_image_html[r] # <<>> => Has(r, "cover_ok")

C17_Witness ==
    \E r \in Reqs :
        /\ Has(r, "image") /\ ~Has(r, "cover_ok") /\ scratch = "empty"
        /\ Has(r, "rendered") /\ files[output_pdf[r]] = Pdf(<<>>, ebook_markdown[r], r)

\* The heading-like lines of a draft: those that start with "#".
HeadingLines(raw) ==
    LET lines == SplitLines(raw)
    IN {i \in DOMAIN lines : lines[i] # <<>> /\ lines[i][1] = "#"}

\* The first heading-like line of a draft, without its leading markers.
FirstHeading(raw) ==
    LET first == CHOOSE i \in HeadingLines(raw) : \A j \in HeadingLines(raw) : i <= j
    IN Strip(LStrip(SplitLines(raw)[first], {"#", " "}))

\* C18: the working title of the cover is the first heading-like line of the
\* draft without its markers, also when the draft's first line is no
\* heading, and the placeholder only when the draft has no heading-like line.
C18_TitleIsFirstHeading ==
    \A r \in Reqs :
        Has(r, "image")
        => /\ HeadingLines(raw_markdown[r]) # {}
              => cover_title[r] = FirstHeading(raw_markdown[r])
           /\ cover_title[r] = DefaultCoverTitle => HeadingLines(raw_markdown[r]) = {}

\* C19: a request rejected by the input validation has created no directory
\* and no file, whatever its output path, and touched no collaborator.
C19_RejectionLeavesNoTrace ==
    \A r \in Single :
        (pc[r] = "done" /\ response[r].status = 400 /\ ~Has(r, "init_models"))
        => /\ dirs = WithParents(IMAGE_DIR)
           /\ \A p \in OutputPaths : files[p] \in {NoFile, OldPdf}
           /\ log[r] = <<>> /\ genai_key = <<>> /\ scratch = "absent"

\* C20: when a request renders or archives, its draft and its final text are
\* not empty, the document is rendered from the final text, and the text of
\* the row it archives is that final text.
C20_TextsPresentAndArchived ==
    \A r \in Single :
        /\ (Has(r, "render") \/ Has(r, "store"))
           => raw_markdown[r] # <<>> /\ ebook_markdown[r] # <<>>
        /\ Has(r, "rendered") => files[output_pdf[r]].body = ebook_markdown[r]
        /\ Has(r, "inserted")
           => /\ rows[Len(rows)].markdown = ebook_markdown[r]
              /\ rows[Len(rows)].pdf_content.body = rows[Len(rows)].markdown

C20_Witness ==
    \E r \in Single :
        /\ Has(r, "inserted") /\ ebook_markdown[r] # raw_markdown[r]
        /\ rows[Len(rows)].markdown = ebook_markdown[r]

====
